---- MODULE Spec2Model ----
(***************************************************************************)
(* A model of the oscillator subsystem of creature-synth                   *)
(* (src/src/oscillator.rs) and of the limb animator (src/src/limb.rs).     *)
(*                                                                         *)
(* Numbers.  The program computes in f32.  The model computes in fixed     *)
(* point, every quantity an integer count of a named unit:                 *)
(*   frequency          1/HZ   Hz      (milli-hertz)                       *)
(*   time, tau          1/SEC  second  (milliseconds)                      *)
(*   phase              1/PhaseUnit cycle, PhaseUnit = 2*HZ*SEC, so that   *)
(*                      0.5*(f0+f1)*dt is a whole number of phase units    *)
(*   alpha, exp, sin    1/ONE                                              *)
(*   amplitude, angle   1/RAD  radian                                      *)
(*   flex, base, pow    1/ONE                                              *)
(* A product of two quantities is rounded to the nearest unit (RoundDiv),  *)
(* as an f32 product is rounded to the nearest float.                      *)
(***************************************************************************)
EXTENDS Integers, Sequences, FiniteSets, TLC

VARIABLES
    freq,    \* a Frequency smoother used on its own
    cmp,     \* the last operation on freq, its argument and what it produced
    osc,     \* an Oscillator used through its own methods
    last,    \* the last operation on osc, its argument and the state before it
    limbs,   \* the app: limb entity -> its Oscillator component
    segs,    \* the app: limb entity -> its chain of LimbSegment entities
    ev,      \* the app: the last system that ran and its input
    pc,      \* the app's frame schedule: which system runs next
    nops     \* how many operations have run (bounds the exploration)

vars == <<freq, cmp, osc, last, limbs, segs, ev, pc, nops>>

----------------------------------------------------------------------------
(* Units *)

HZ == 1000
SEC == 1000
ONE == 10000
RAD == 10000
PhaseUnit == 2 * HZ * SEC

(* Bounds of the exploration *)
MaxOps == 5

----------------------------------------------------------------------------
(* Arithmetic *)

Max(a, b) == IF a >= b THEN a ELSE b
Min(a, b) == IF a <= b THEN a ELSE b
Abs(a) == IF a >= 0 THEN a ELSE -a

\* a / b rounded to the nearest integer (halves away from zero), b > 0
RoundDiv(a, b) ==
    IF a >= 0 THEN (2 * a + b) \div (2 * b)
    ELSE -((2 * (-a) + b) \div (2 * b))

\* x * y of two numbers in 1/ONE, in 1/ONE
MulOne(x, y) == RoundDiv(x * y, ONE)

\* f32::clamp(lo, hi)
clamp(x, lo, hi) == IF x < lo THEN lo ELSE IF x > hi THEN hi ELSE x

\* exp(-1) in 1/ONE
ExpNeg1 == RoundDiv(36788 * ONE, 100000)

\* exp(-r) for 0 <= r < 1 (r in 1/ONE): the Taylor series, nine terms, by Horner
ExpNegFrac(r) ==
    LET h8 == ONE - RoundDiv(r, 8)
        h7 == ONE - RoundDiv(MulOne(r, h8), 7)
        h6 == ONE - RoundDiv(MulOne(r, h7), 6)
        h5 == ONE - RoundDiv(MulOne(r, h6), 5)
        h4 == ONE - RoundDiv(MulOne(r, h5), 4)
        h3 == ONE - RoundDiv(MulOne(r, h4), 3)
        h2 == ONE - RoundDiv(MulOne(r, h3), 2)
    IN  ONE - MulOne(r, h2)

RECURSIVE ExpNegInt(_)
\* exp(-n) for a natural number n
ExpNegInt(n) == IF n = 0 THEN ONE ELSE MulOne(ExpNeg1, ExpNegInt(n - 1))

\* f32::exp(-x) for x >= 0 (x in 1/ONE).  Beyond x = 12 the value is below
\* half a unit of 1/ONE (in f32, 1.0 - exp(-x) rounds to 1.0 from x = 17).
ExpNeg(x) ==
    IF x >= 12 * ONE THEN 0
    ELSE MulOne(ExpNegInt(x \div ONE), ExpNegFrac(x % ONE))

----------------------------------------------------------------------------
(* Frequency: src/src/oscillator.rs 44-104 *)

\* impl Default for Frequency: tau is 0.03 s
DEFAULT_TAU == 30

Frequency_default == [current |-> 0, target |-> 0, tau |-> DEFAULT_TAU]

\* Frequency::new(hz): current and target are hz as given
Frequency_new(hz) == [Frequency_default EXCEPT !.current = hz, !.target = hz]

\* A set_target that also jumps the current frequency to the new target
SetTargetSnap(f, hz) == [f EXCEPT !.target = Max(hz, 0), !.current = Max(hz, 0)]

\* Frequency::set_target(hz): target = hz.max(0.0)
set_target(f, hz) == [f EXCEPT !.target = Max(hz, 0)]

\* Frequency::set_tau(d): tau = d.as_secs_f32().max(0.0); d is a Duration
set_tau(f, d) == [f EXCEPT !.tau = Max(d, 0)]

\* A linear blend factor dt / tau capped at 1, in place of the exponential one
AlphaLinear(dt, tau) == Min(ONE, RoundDiv(dt * ONE, tau))

\* An explicit Euler step's blend factor dt / tau, which exceeds 1 when dt > tau
AlphaEuler(dt, tau) == RoundDiv(dt * ONE, tau)

\* alpha = 1.0 - (-dt / tau).exp(), in 1/ONE; dt > 0, tau > 0
alpha(dt, tau) == ONE - ExpNeg(RoundDiv(dt * ONE, tau))

\* An update with the sign of the step reversed: it moves away from the target
UpdateAway(f, dt) ==
    IF dt <= 0 THEN f
    ELSE IF f.tau <= 0 THEN [f EXCEPT !.current = f.target]
    ELSE [f EXCEPT !.current =
              f.current - RoundDiv((f.target - f.current) * alpha(dt, f.tau), ONE)]

\* Frequency::update(dt): the smoother after the call (it returns .current)
update(f, dt) ==
    IF dt <= 0 THEN f
    ELSE IF f.tau <= 0 THEN [f EXCEPT !.current = f.target]
    ELSE [f EXCEPT !.current =
              f.current + RoundDiv((f.target - f.current) * alpha(dt, f.tau), ONE)]

----------------------------------------------------------------------------
(* Oscillator: src/src/oscillator.rs 34-42, 106-190 *)

Waves == {"Flat", "Sine", "Square", "Triangle"}

\* std::f32::consts::TAU, in 1/ONE radians
TAU == 62832

\* impl Default for Oscillator: amplitude 1.0
DEFAULT_AMPLITUDE == 10000

Oscillator_default ==
    [wave |-> "Sine", amplitude |-> DEFAULT_AMPLITUDE,
     frequency |-> Frequency_default, phase |-> 0]

\* Oscillator::new(wave, amplitude, frequency): phase starts at 0
Oscillator_new(wave, amplitude, frequency) ==
    [wave |-> wave, amplitude |-> amplitude,
     frequency |-> Frequency_new(frequency), phase |-> 0]

\* Oscillator::set_transition_time(d)
set_transition_time(o, d) == [o EXCEPT !.frequency = set_tau(o.frequency, d)]

\* Oscillator::set_frequency(hz)
set_frequency(o, hz) == [o EXCEPT !.frequency = set_target(o.frequency, hz)]

target_frequency(o) == o.frequency.target
current_frequency(o) == o.frequency.current

\* f32::fract of a phase: x - x.trunc(), which keeps the sign of x
fract(p) == IF p >= 0 THEN p % PhaseUnit ELSE -((-p) % PhaseUnit)

\* A tick that integrates the phase with the updated frequency only
TickEndRate(o, dt) ==
    IF dt <= 0 THEN o
    ELSE LET fq == update(o.frequency, dt)
         IN  [o EXCEPT !.frequency = fq,
                       !.phase = fract(o.phase + 2 * fq.current * dt)]

\* A tick without its own early return, which leaves the guard to update
TickNoGuard(o, dt) ==
    LET f0 == o.frequency.current
        fq == update(o.frequency, dt)
    IN  [o EXCEPT !.frequency = fq,
                  !.phase = fract(o.phase + (f0 + fq.current) * dt)]

\* Oscillator::tick(dt).  f_avg * dt = 0.5 * (f0 + f1) * dt cycles is
\* (f0 + f1) * dt phase units, PhaseUnit being 2 * HZ * SEC.
tick(o, dt) ==
    IF dt <= 0 THEN o
    ELSE LET f0 == o.frequency.current
             fq == update(o.frequency, dt)
             f1 == fq.current
         IN  [o EXCEPT !.frequency = fq,
                       !.phase = fract(o.phase + (f0 + f1) * dt)]

\* sin(x) for 0 <= x <= pi/4 and cos(y) for 0 <= y <= pi/4 (1/ONE radians):
\* the Taylor series to x^7 and to y^6
SinSeries(x) ==
    LET x2 == MulOne(x, x)
        t3 == RoundDiv(MulOne(x, x2), 6)
        t5 == RoundDiv(MulOne(t3, x2), 20)
        t7 == RoundDiv(MulOne(t5, x2), 42)
    IN  x - t3 + t5 - t7

CosSeries(y) ==
    LET y2 == MulOne(y, y)
        t2 == RoundDiv(y2, 2)
        t4 == RoundDiv(MulOne(t2, y2), 12)
        t6 == RoundDiv(MulOne(t4, y2), 30)
    IN  ONE - t2 + t4 - t6

\* sin(TAU * m / PhaseUnit) for 0 <= m <= PhaseUnit / 4
SinQuarter(m) ==
    LET x == RoundDiv(RoundDiv(m, 25) * (TAU \div 2), 40000)
    IN  IF 8 * m <= PhaseUnit THEN SinSeries(x) ELSE CosSeries((TAU \div 4) - x)

\* sin(TAU * m / PhaseUnit) for 0 <= m < PhaseUnit
SinTurn(m) ==
    IF 4 * m <= PhaseUnit THEN SinQuarter(m)
    ELSE IF 2 * m <= PhaseUnit THEN SinQuarter(PhaseUnit \div 2 - m)
    ELSE IF 4 * m <= 3 * PhaseUnit THEN -SinQuarter(m - PhaseUnit \div 2)
    ELSE -SinQuarter(PhaseUnit - m)

\* (TAU * phase).sin(), in 1/ONE; sin is odd
Sin(p) == IF p >= 0 THEN SinTurn(p % PhaseUnit) ELSE -SinTurn((-p) % PhaseUnit)

\* (TAU * phase).sin() >= 0.0 with the phase read as a real number: at half a
\* cycle sin(pi) is 0
SinNonNegExact(p) ==
    IF p >= 0 THEN 2 * (p % PhaseUnit) <= PhaseUnit
    ELSE (-p) % PhaseUnit = 0 \/ 2 * ((-p) % PhaseUnit) >= PhaseUnit

\* (TAU * phase).sin() >= 0.0 as f32 decides it.  For 0 < phase < 0.5 the
\* angle is below pi and the sine positive; for 0.5 < phase < 1 it is
\* negative.  At phase = 0.5 the angle is TAU_f32 * 0.5 = PI_f32 =
\* 3.14159274..., which is above pi, and its sine is -8.74e-8: negative.
\* A negative phase mirrors this (sin is odd; sin(-0.0) = -0.0 >= 0.0).
SinNonNeg(p) ==
    IF p >= 0 THEN 2 * (p % PhaseUnit) < PhaseUnit
    ELSE (-p) % PhaseUnit = 0 \/ 2 * ((-p) % PhaseUnit) >= PhaseUnit

\* A Triangle arm without the quarter-cycle shift: it peaks at half a cycle
TriNoShift(phase) ==
    LET p == fract(phase)
    IN  ONE - RoundDiv(Abs(p - PhaseUnit \div 2), PhaseUnit \div (4 * ONE))

\* the Triangle arm: p = (phase + 0.25).fract(); tri = 1.0 - 4.0 * (p - 0.5).abs()
tri(phase) ==
    LET p == fract(phase + PhaseUnit \div 4)
    IN  ONE - RoundDiv(Abs(p - PhaseUnit \div 2), PhaseUnit \div (4 * ONE))

\* Oscillator::sample(), in 1/RAD
sample(o) ==
    LET a == o.amplitude IN
    CASE o.wave = "Flat" -> 0
      [] o.wave = "Sine" -> RoundDiv(a * Sin(o.phase), ONE)
      [] o.wave = "Square" -> IF SinNonNeg(o.phase) THEN a ELSE -a
      [] o.wave = "Triangle" -> RoundDiv(a * tri(o.phase), ONE)

----------------------------------------------------------------------------
(* Flex policies: src/src/limb.rs 207-211, 328-332, 377-382 *)

SegmentTypes == {"Rectangle", "Disk"}

\* RectType::flex_for_segment: base = 1.1, pow = 1.1
RECT_BASE == 11000
RECT_POW == 11000
\* DiskType::flex_for_segment: base = 1.05, pow = 1.0
DISK_BASE == 10500
DISK_POW == 10000

\* The resolution x^(1/10) is computed to
RootUnit == ONE \div 10

\* r^10 for r in 1/RootUnit, in 1/RootUnit
RECURSIVE RootPow(_, _)
RootPow(r, k) ==
    IF k = 0 THEN RootUnit ELSE RoundDiv(RootPow(r, k - 1) * r, RootUnit)

\* x^(1/10) for a whole number 1 <= x < 1024, in 1/RootUnit: by bisection,
\* the largest r between lo and hi with r^10 <= x
RECURSIVE RootBisect(_, _, _)
RootBisect(x, lo, hi) ==
    IF hi - lo <= 1 THEN lo
    ELSE LET mid == (lo + hi) \div 2
         IN  IF RootPow(mid, 10) <= x * RootUnit
             THEN RootBisect(x, mid, hi)
             ELSE RootBisect(x, lo, mid)

Root10(x) == RootBisect(x, RootUnit, 2 * RootUnit)

RECURSIVE IntPow(_, _)
\* b^k for whole numbers b and k
IntPow(b, k) == IF k = 0 THEN 1 ELSE b * IntPow(b, k - 1)

\* (x as f32).powf(pow) for a whole number x >= 0 and pow a multiple of 0.1
\* (pow in 1/ONE), in 1/ONE: x^(t/10) is x^(t div 10) * (x^(1/10))^(t mod 10)
powf(x, pow) ==
    IF x = 0 THEN (IF pow = 0 THEN ONE ELSE 0)
    ELSE LET t == pow \div (ONE \div 10)
             whole == IntPow(x, t \div 10)
             frac == RootPow(Root10(x), t % 10)
         IN  whole * frac * (ONE \div RootUnit)

\* A flex policy that counts the segments from one
FlexFromOne(base, pow, segment_index) ==
    ONE + RoundDiv((base - ONE) * powf(segment_index + 1, pow), ONE)

\* 1.0 + (base - 1.0) * (segment_index as f32).powf(pow), in 1/ONE
FlexPolicy(base, pow, segment_index) ==
    ONE + RoundDiv((base - ONE) * powf(segment_index, pow), ONE)

\* The Rectangle type with the Disk type's constants
RectFlexAsDisk(segment_index) == FlexPolicy(DISK_BASE, DISK_POW, segment_index)
RectType_flex_for_segment(segment_index) == FlexPolicy(RECT_BASE, RECT_POW, segment_index)
DiskType_flex_for_segment(segment_index) == FlexPolicy(DISK_BASE, DISK_POW, segment_index)

\* LimbSegmentTypeId::flex_for_segment
flex_for_segment(type_id, segment_index) ==
    CASE type_id = "Rectangle" -> RectType_flex_for_segment(segment_index)
      [] type_id = "Disk" -> DiskType_flex_for_segment(segment_index)

----------------------------------------------------------------------------
(* The inputs the operations are tried with *)

\* frequencies handed to Frequency::new, Oscillator::new, set_target (Hz/HZ)
HzInputs == {-500, 0, 400, 2000}
\* durations handed to set_tau / set_transition_time (a Duration is never negative)
TauInputs == {0, 30, 100}
\* time steps handed to update / tick
DtInputs == {-16, 0, 16, 50}

NoOp == [op |-> "new"]

----------------------------------------------------------------------------
(* A Frequency used on its own: new/default, set_target, set_tau, update *)

InitFreq ==
    /\ freq \in {Frequency_new(hz) : hz \in HzInputs} \cup {Frequency_default}
    /\ cmp = NoOp
    /\ osc = 0 /\ last = NoOp /\ limbs = <<>> /\ segs = <<>> /\ ev = NoOp
    /\ pc = "freq" /\ nops = 0

FreqSetTarget(hz) ==
    /\ nops < MaxOps
    /\ freq' = set_target(freq, hz)
    /\ cmp' = [op |-> "set_target", hz |-> hz, pre |-> freq]
    /\ nops' = nops + 1
    /\ UNCHANGED <<osc, last, limbs, segs, ev, pc>>

FreqSetTau(d) ==
    /\ nops < MaxOps
    /\ freq' = set_tau(freq, d)
    /\ cmp' = [op |-> "set_tau", d |-> d, pre |-> freq]
    /\ nops' = nops + 1
    /\ UNCHANGED <<osc, last, limbs, segs, ev, pc>>

FreqUpdate(dt) ==
    /\ nops < MaxOps
    /\ freq' = update(freq, dt)
    /\ cmp' = [op |-> "update", dt |-> dt, pre |-> freq,
               ret |-> update(freq, dt).current]
    /\ nops' = nops + 1
    /\ UNCHANGED <<osc, last, limbs, segs, ev, pc>>

\* update(dt1) then update(dt2); cmp.once is what one update(dt1 + dt2) of the
\* same starting smoother produces
FreqUpdateTwice(dt1, dt2) ==
    /\ nops < MaxOps
    /\ freq' = update(update(freq, dt1), dt2)
    /\ cmp' = [op |-> "update_twice", dt1 |-> dt1, dt2 |-> dt2, pre |-> freq,
               once |-> update(freq, dt1 + dt2)]
    /\ nops' = nops + 1
    /\ UNCHANGED <<osc, last, limbs, segs, ev, pc>>

NextFreq ==
    \/ \E hz \in HzInputs : FreqSetTarget(hz)
    \/ \E d \in TauInputs : FreqSetTau(d)
    \/ \E dt \in DtInputs : FreqUpdate(dt)
    \/ \E dt1, dt2 \in {dt \in DtInputs : dt >= 0} : FreqUpdateTwice(dt1, dt2)

SpecFreq == InitFreq /\ [][NextFreq]_vars

----------------------------------------------------------------------------
(* An Oscillator used through its methods: new/default, tick,             *)
(* set_frequency, set_transition_time                                      *)

AmpInputs == {-2000, 2000}
OscDtInputs == {-16, 0, 50, 1250}
MaxOscOps == 4

InitOsc ==
    /\ osc \in {Oscillator_new(w, a, hz) : w \in Waves, a \in AmpInputs, hz \in HzInputs}
               \cup {Oscillator_default}
    /\ last = NoOp
    /\ freq = Frequency_default /\ cmp = NoOp /\ limbs = <<>> /\ segs = <<>>
    /\ ev = NoOp /\ pc = "osc" /\ nops = 0

OscTick(dt) ==
    /\ nops < MaxOscOps
    /\ osc' = tick(osc, dt)
    /\ last' = [op |-> "tick", dt |-> dt, pre |-> osc]
    /\ nops' = nops + 1
    /\ UNCHANGED <<freq, cmp, limbs, segs, ev, pc>>

OscSetFrequency(hz) ==
    /\ nops < MaxOscOps
    /\ osc' = set_frequency(osc, hz)
    /\ last' = [op |-> "set_frequency", hz |-> hz, pre |-> osc]
    /\ nops' = nops + 1
    /\ UNCHANGED <<freq, cmp, limbs, segs, ev, pc>>

OscSetTransitionTime(d) ==
    /\ nops < MaxOscOps
    /\ osc' = set_transition_time(osc, d)
    /\ last' = [op |-> "set_transition_time", d |-> d, pre |-> osc]
    /\ nops' = nops + 1
    /\ UNCHANGED <<freq, cmp, limbs, segs, ev, pc>>

NextOsc ==
    \/ \E dt \in OscDtInputs : OscTick(dt)
    \/ \E hz \in HzInputs : OscSetFrequency(hz)
    \/ \E d \in TauInputs : OscSetTransitionTime(d)

SpecOsc == InitOsc /\ [][NextOsc]_vars

----------------------------------------------------------------------------
(* The app: limbs with their oscillators and segment chains, and the       *)
(* systems oscillator_user_update, oscillator_tick, animate_limb_segments  *)

\* src/src/oscillator.rs 12-14
FREQ_STEP == 50
MIN_FREQ == 0
MAX_FREQ == 2000

\* oscillator_tick clamps the frame's delta to 0.05 s
MAX_DT == 50

NumLimbs == 2
MaxAppOps == 5

\* initial frequencies of the first limb's oscillator, all in [MIN_FREQ, MAX_FREQ]
InitHzInputs == {0, 50, 400, 2000}
\* chains of segment types of the first limb
SegPlanInputs == {<<>>, <<"Rectangle", "Rectangle", "Rectangle">>,
                  <<"Disk", "Rectangle">>}
\* frame deltas of the time source (Time::delta_secs is never negative)
DeltaInputs == {0, 16, 200}

LimbIds == 1 .. NumLimbs

\* spawn_creatures' inner loop: the chain of a limb, segment_index from
\* enumerate(), Transform::default() (no rotation)
spawn_segments(types) ==
    [k \in 1 .. Len(types) |->
        [segment_index |-> k - 1, type_id |-> types[k], rotation |-> 0]]

\* A LimbPlan: the first limb's is the input; the others are fixed and differ
\* from it and, by their amplitude, from each other
LimbPlan(l, wave, hz, types) ==
    IF l = 1 THEN [oscillator |-> Oscillator_new(wave, 2000, hz), segments |-> types]
    ELSE [oscillator |-> Oscillator_new("Triangle", 1000 * l, 1000),
          segments |-> <<"Disk", "Rectangle">>]

\* oscillator_user_update without the clamp into [MIN_FREQ, MAX_FREQ]
UserUpdateNoClamp(q, up, down) ==
    LET delta == (IF up THEN FREQ_STEP ELSE 0) - (IF down THEN FREQ_STEP ELSE 0)
    IN  IF delta = 0 THEN q
        ELSE [l \in DOMAIN q |-> set_frequency(q[l], target_frequency(q[l]) + delta)]

\* oscillator_user_update(keys, q): q after the system ran
oscillator_user_update(q, up, down) ==
    LET delta == (IF up THEN FREQ_STEP ELSE 0) - (IF down THEN FREQ_STEP ELSE 0)
    IN  IF delta = 0 THEN q
        ELSE [l \in DOMAIN q |->
                 set_frequency(q[l],
                     clamp(target_frequency(q[l]) + delta, MIN_FREQ, MAX_FREQ))]

\* oscillator_tick(time, q): q after the system ran
oscillator_tick(q, delta_secs) ==
    LET dt == Min(delta_secs, MAX_DT)
    IN  [l \in DOMAIN q |-> tick(q[l], dt)]

\* Quat::from_rotation_z(angle * flex): the angle about z, in 1/RAD
Rotation(angle, flex) == RoundDiv(angle * flex, ONE)

\* An animation pass that samples the first limb's oscillator for every limb
AnimateSharedAngle(q, chains) ==
    [l \in DOMAIN chains |->
        LET angle == sample(q[1])
        IN  [k \in DOMAIN chains[l] |->
                [chains[l][k] EXCEPT !.rotation =
                    Rotation(angle,
                             flex_for_segment(chains[l][k].type_id,
                                            chains[l][k].segment_index))]]]

\* animate_limb_segments: the segment chains after the system ran.  The
\* descendants of a limb that carry LimbSegment are its own chain.
animate_limb_segments(q, chains) ==
    [l \in DOMAIN chains |->
        LET angle == sample(q[l])
        IN  [k \in DOMAIN chains[l] |->
                [chains[l][k] EXCEPT !.rotation =
                    Rotation(angle,
                             flex_for_segment(chains[l][k].type_id,
                                            chains[l][k].segment_index))]]]

InitApp ==
    /\ \E wave \in {"Sine", "Square"}, hz \in InitHzInputs, types \in SegPlanInputs :
          /\ limbs = [l \in LimbIds |-> LimbPlan(l, wave, hz, types).oscillator]
          /\ segs = [l \in LimbIds |->
                        spawn_segments(LimbPlan(l, wave, hz, types).segments)]
    /\ ev = NoOp
    /\ freq = Frequency_default /\ cmp = NoOp /\ osc = Oscillator_default
    /\ last = NoOp /\ nops = 0

SysUserUpdate(up, down) ==
    /\ nops < MaxAppOps
    /\ limbs' = oscillator_user_update(limbs, up, down)
    /\ ev' = [op |-> "user_update", up |-> up, down |-> down, pre |-> limbs]
    /\ nops' = nops + 1
    /\ UNCHANGED <<freq, cmp, osc, last, segs, pc>>

SysOscillatorTick(delta_secs) ==
    /\ nops < MaxAppOps
    /\ limbs' = oscillator_tick(limbs, delta_secs)
    /\ ev' = [op |-> "tick", delta_secs |-> delta_secs, pre |-> limbs]
    /\ nops' = nops + 1
    /\ UNCHANGED <<freq, cmp, osc, last, segs, pc>>

SysAnimateLimbSegments ==
    /\ nops < MaxAppOps
    /\ segs' = animate_limb_segments(limbs, segs)
    /\ ev' = [op |-> "animate", pre |-> limbs, pre_segs |-> segs]
    /\ nops' = nops + 1
    /\ UNCHANGED <<freq, cmp, osc, last, limbs, pc>>

\* The systems in any order
InitSystems == InitApp /\ pc = "any"

NextSystems ==
    \/ \E up, down \in BOOLEAN : SysUserUpdate(up, down)
    \/ \E delta_secs \in DeltaInputs : SysOscillatorTick(delta_secs)
    \/ SysAnimateLimbSegments

SpecSystems == InitSystems /\ [][NextSystems]_vars

\* The order of the systems within a simulation step.  The oscillator and
\* limb modules define the systems and leave their order to the app's
\* schedule; the order here is the one of the specification's sections 4.4 and
\* 5: oscillator_tick, then animate_limb_segments.  Input events arrive at any
\* point of a step.

\* A schedule that animates before it ticks
ScheduleAnimateFirst == <<"animate", "tick">>

\* oscillator_tick, then animate_limb_segments
Schedule == <<"tick", "animate">>

Advance(p) ==
    IF p.stage = Len(Schedule) THEN [stage |-> 1, frame |-> p.frame + 1]
    ELSE [p EXCEPT !.stage = p.stage + 1]

InitFrame == InitApp /\ pc = [stage |-> 1, frame |-> 0]

FrameUserUpdate(up, down) ==
    /\ nops < MaxAppOps
    /\ limbs' = oscillator_user_update(limbs, up, down)
    /\ ev' = [op |-> "user_update", up |-> up, down |-> down, pre |-> limbs]
    /\ nops' = nops + 1
    /\ UNCHANGED <<freq, cmp, osc, last, segs, pc>>

FrameOscillatorTick(delta_secs) ==
    /\ nops < MaxAppOps
    /\ Schedule[pc.stage] = "tick"
    /\ limbs' = oscillator_tick(limbs, delta_secs)
    /\ ev' = [op |-> "tick", delta_secs |-> delta_secs, pre |-> limbs]
    /\ pc' = Advance(pc)
    /\ nops' = nops + 1
    /\ UNCHANGED <<freq, cmp, osc, last, segs>>

FrameAnimateLimbSegments ==
    /\ nops < MaxAppOps
    /\ Schedule[pc.stage] = "animate"
    /\ segs' = animate_limb_segments(limbs, segs)
    /\ ev' = [op |-> "animate", pre |-> limbs, pre_segs |-> segs]
    /\ pc' = Advance(pc)
    /\ nops' = nops + 1
    /\ UNCHANGED <<freq, cmp, osc, last, limbs>>

NextFrame ==
    \/ \E up, down \in BOOLEAN : FrameUserUpdate(up, down)
    \/ \E delta_secs \in DeltaInputs : FrameOscillatorTick(delta_secs)
    \/ FrameAnimateLimbSegments

SpecFrame == InitFrame /\ [][NextFrame]_vars

----------------------------------------------------------------------------
(* Frequency: properties *)

\* C2: in every reachable state of a Frequency, current >= 0, target >= 0 and
\* tau >= 0.
C2_FrequencyNonNegative ==
    freq.current >= 0 /\ freq.target >= 0 /\ freq.tau >= 0

\* Two runs of the smoother agree when their currents differ by at most this
\* (0.002 Hz: two roundings to the frequency unit)
ComposeTol == HZ \div 500

\* C6: with tau > 0 and dt1, dt2 >= 0, update(dt1) then update(dt2) leaves the
\* same current (within ComposeTol) as one update(dt1 + dt2) from the same
\* starting smoother, and the target is unchanged in both runs.
C6_UpdateComposes ==
    (cmp.op = "update_twice" /\ cmp.pre.tau > 0) =>
        /\ Abs(freq.current - cmp.once.current) <= ComposeTol
        /\ freq.target = cmp.pre.target
        /\ cmp.once.target = cmp.pre.target

\* two positive steps were composed while the smoother was still gliding, and
\* the glide moved the current
C6_Witness ==
    /\ cmp.op = "update_twice" /\ cmp.pre.tau > 0
    /\ cmp.dt1 > 0 /\ cmp.dt2 > 0
    /\ cmp.pre.current # cmp.pre.target
    /\ freq.current # cmp.pre.current
    /\ freq.current # freq.target

----------------------------------------------------------------------------
(* Oscillator: properties *)

\* C1: after any sequence of tick, set_frequency and set_transition_time on
\* any constructed Oscillator, the stored phase satisfies 0 <= phase < 1.
C1_PhaseNormalized == 0 <= osc.phase /\ osc.phase < PhaseUnit

\* the oscillator of end-to-end scenario 1 before its tick: Sine, amplitude
\* 0.2, 0.4 Hz, phase 0, tau 0
Scenario1 ==
    [wave |-> "Sine", amplitude |-> 2000,
     frequency |-> [current |-> 400, target |-> 400, tau |-> 0], phase |-> 0]

\* C5: for dt > 0, tick(dt) updates the smoother exactly once and sets phase
\* to fract(phase + 0.5 * (f0 + f1) * dt), f0 the current frequency before
\* the update and f1 the one after it; Sine, 0.2, 0.4 Hz, phase 0, tau 0 and
\* tick(1.25) give phase 0.5.  (In phase units, 0.5 * (f0 + f1) * dt cycles
\* is (f0 + f1) * dt.)
C5_TickTrapezoid ==
    (last.op = "tick" /\ last.dt > 0) =>
        /\ osc.frequency = update(last.pre.frequency, last.dt)
        /\ osc.phase =
             fract(last.pre.phase
                   + (last.pre.frequency.current + osc.frequency.current) * last.dt)
        /\ (last.pre = Scenario1 /\ last.dt = 1250) => osc.phase = PhaseUnit \div 2

\* a tick ran while the frequency was gliding (f0 differs from f1) and moved
\* the phase
C5_Witness ==
    /\ last.op = "tick" /\ last.dt > 0
    /\ last.pre.frequency.current # osc.frequency.current
    /\ last.pre.frequency.current > 0
    /\ osc.frequency.current # osc.frequency.target
    /\ osc.phase # last.pre.phase

\* C7: set_frequency(hz) stores max(hz, 0) as the target and leaves current,
\* tau, phase, amplitude and wave as they were; the current frequency changes
\* only in a tick with dt > 0.
C7_SetFrequencyFrame ==
    /\ last.op = "set_frequency" =>
          /\ osc.frequency.target = Max(last.hz, 0)
          /\ osc = [last.pre EXCEPT !.frequency.target = Max(last.hz, 0)]
    /\ (last.op # "new" /\ osc.frequency.current # last.pre.frequency.current) =>
          (last.op = "tick" /\ last.dt > 0)

\* set_frequency was given a negative value and a value away from the current
\* frequency
C7_Witness ==
    /\ last.op = "set_frequency"
    /\ \/ last.hz < 0 /\ last.pre.frequency.target > 0
       \/ last.hz > 0 /\ last.hz # osc.frequency.current

\* C8: for dt <= 0, update(dt) changes nothing and returns current, and
\* tick(dt) leaves the whole oscillator as it was, also when current differs
\* from target and when tau <= 0.
C8_NonPositiveDtNoOp ==
    /\ (last.op = "tick" /\ last.dt <= 0) => osc = last.pre
    /\ \A dt \in {d \in OscDtInputs : d <= 0} :
          update(osc.frequency, dt) = osc.frequency

\* a tick with dt <= 0 ran on an oscillator whose phase had moved, whose
\* current differs from its target and whose tau is 0
C8_Witness ==
    /\ last.op = "tick" /\ last.dt < 0
    /\ osc.frequency.current # osc.frequency.target
    /\ osc.frequency.current # 0
    /\ osc.frequency.tau = 0
    /\ osc.phase # 0

\* C10 as stated: -amplitude <= sample() <= amplitude for every wave, phase
\* and amplitude; Flat gives 0; Square gives amplitude for phase in [0, 0.5]
\* and -amplitude for phase in (0.5, 1).
C10_SampleBoundedAsStated ==
    /\ -osc.amplitude <= sample(osc) /\ sample(osc) <= osc.amplitude
    /\ osc.wave = "Flat" => sample(osc) = 0
    /\ (osc.wave = "Square" /\ 0 <= osc.phase /\ 2 * osc.phase <= PhaseUnit) =>
          sample(osc) = osc.amplitude
    /\ (osc.wave = "Square" /\ 2 * osc.phase > PhaseUnit /\ osc.phase < PhaseUnit) =>
          sample(osc) = -osc.amplitude

\* C10 amended: |sample()| <= |amplitude| for Flat, Sine and Square at every
\* phase and for Triangle from phase -0.25 on; Flat gives 0; Square gives
\* amplitude for phase in [0, 0.5) and -amplitude for phase in [0.5, 1).
C10_SampleBounded ==
    /\ (osc.wave # "Triangle" \/ 4 * osc.phase >= -PhaseUnit) =>
          Abs(sample(osc)) <= Abs(osc.amplitude)
    /\ osc.wave = "Flat" => sample(osc) = 0
    /\ (osc.wave = "Square" /\ 0 <= osc.phase /\ 2 * osc.phase < PhaseUnit) =>
          sample(osc) = osc.amplitude
    /\ (osc.wave = "Square" /\ 2 * osc.phase >= PhaseUnit /\ osc.phase < PhaseUnit) =>
          sample(osc) = -osc.amplitude

\* a Square oscillator was ticked to exactly half a cycle
C10_Witness ==
    /\ last.op = "tick" /\ last.dt > 0
    /\ osc.wave = "Square" /\ 2 * osc.phase = PhaseUnit
    /\ sample(osc) = -osc.amplitude

----------------------------------------------------------------------------
(* The app: properties *)

\* C3: from an initial frequency in [MIN_FREQ, MAX_FREQ], after any
\* interleaving of oscillator_user_update events and oscillator_tick steps the
\* target and the current frequency of every oscillator stay in
\* [MIN_FREQ, MAX_FREQ]; a same-direction event at the bound leaves the target
\* at the bound.
C3_FrequencyStaysInBand ==
    /\ \A l \in LimbIds :
          /\ MIN_FREQ <= target_frequency(limbs[l])
          /\ target_frequency(limbs[l]) <= MAX_FREQ
          /\ MIN_FREQ <= current_frequency(limbs[l])
          /\ current_frequency(limbs[l]) <= MAX_FREQ
    /\ (ev.op = "user_update" /\ ev.up /\ ~ev.down) =>
          \A l \in LimbIds :
             target_frequency(limbs[l]) =
                Min(target_frequency(ev.pre[l]) + FREQ_STEP, MAX_FREQ)
    /\ (ev.op = "user_update" /\ ev.down /\ ~ev.up) =>
          \A l \in LimbIds :
             target_frequency(limbs[l]) =
                Max(target_frequency(ev.pre[l]) - FREQ_STEP, MIN_FREQ)

\* ArrowUp arrived with an oscillator's target already at MAX_FREQ, after
\* another oscillator had been ticked towards a raised target
C3_Witness ==
    /\ ev.op = "user_update" /\ ev.up /\ ~ev.down
    /\ \E l \in LimbIds :
          /\ target_frequency(ev.pre[l]) = MAX_FREQ
          /\ target_frequency(limbs[l]) = MAX_FREQ
    /\ \E l \in LimbIds :
          /\ current_frequency(limbs[l]) > 1000
          /\ current_frequency(limbs[l]) < target_frequency(ev.pre[l])

\* The rotations animate_limb_segments writes from the oscillators q
FreshRotations(q) ==
    \A l \in LimbIds : \A k \in DOMAIN segs[l] :
        segs[l][k].rotation =
            Rotation(sample(q[l]),
                     flex_for_segment(segs[l][k].type_id, segs[l][k].segment_index))

\* C4: in every simulation step the oscillators are ticked before
\* animate_limb_segments samples them, so at the end of step n every segment's
\* rotation is the one computed from the phase after the n-th tick.
C4_TickBeforeAnimate ==
    (pc.stage = 1 /\ pc.frame > 0) => FreshRotations(limbs)

\* a second step ended whose tick moved a phase: its animate replaced a
\* non-zero rotation by a different one
C4_Witness ==
    /\ pc.stage = 1 /\ pc.frame >= 2 /\ ev.op = "animate"
    /\ \E l \in LimbIds : \E k \in DOMAIN segs[l] :
          /\ ev.pre_segs[l][k].rotation # 0
          /\ segs[l][k].rotation # ev.pre_segs[l][k].rotation

\* C9 as stated: once the target frequency is MIN_FREQ, a tick leaves the
\* phase and sample() as they were, and the amplitude is unaffected.
C9_SilencedAsStated ==
    ev.op = "tick" =>
        \A l \in LimbIds :
           target_frequency(ev.pre[l]) = MIN_FREQ =>
              /\ limbs[l].phase = ev.pre[l].phase
              /\ sample(limbs[l]) = sample(ev.pre[l])
              /\ limbs[l].amplitude = ev.pre[l].amplitude

\* C9 amended: once the target frequency is MIN_FREQ, each tick moves the
\* current frequency towards 0 and never below it; from the tick on that finds
\* the current frequency at 0, the phase and sample() stay as they are; the
\* amplitude is unaffected throughout.
C9_Silenced ==
    ev.op = "tick" =>
        \A l \in LimbIds :
           target_frequency(ev.pre[l]) = MIN_FREQ =>
              /\ target_frequency(limbs[l]) = MIN_FREQ
              /\ 0 <= current_frequency(limbs[l])
              /\ current_frequency(limbs[l]) <= current_frequency(ev.pre[l])
              /\ current_frequency(ev.pre[l]) = 0 =>
                    /\ limbs[l].phase = ev.pre[l].phase
                    /\ sample(limbs[l]) = sample(ev.pre[l])
              /\ limbs[l].amplitude = ev.pre[l].amplitude

\* a tick with dt > 0 found an oscillator with target and current frequency 0
\* whose phase had advanced before, and left the phase where it was
C9_Witness ==
    /\ ev.op = "tick" /\ ev.delta_secs > 0
    /\ \E l \in LimbIds :
          /\ target_frequency(ev.pre[l]) = MIN_FREQ
          /\ current_frequency(ev.pre[l]) = 0
          /\ ev.pre[l].phase > 0
          /\ limbs[l].phase = ev.pre[l].phase

----------------------------------------------------------------------------
(* Triangle wave: properties *)

\* The zero-centred triangle of period 1 that rises through zero at phase 0,
\* written out piece by piece for 0 <= x < PhaseUnit, in 1/ONE: 4x up to a
\* quarter cycle, 2 - 4x up to three quarters, 4x - 4 from there
TriangleShape(x) ==
    LET q == RoundDiv(x, PhaseUnit \div (4 * ONE))
    IN  IF 4 * x <= PhaseUnit THEN q
        ELSE IF 4 * x <= 3 * PhaseUnit THEN 2 * ONE - q
        ELSE q - 4 * ONE

\* Two samples agree when they differ by at most one unit of 1/RAD (one
\* rounding)
SampleTol == RAD \div 10000

\* C11: for wave = Triangle and phase in [0, 1), sample() is amplitude times
\* the piecewise linear triangle that is zero at phase 0 and rising, +1 at
\* phase 0.25, zero at phase 0.5 and -1 at phase 0.75, and whose values at
\* phase -> 1 join the value at phase 0.
C11_TriangleShape ==
    (osc.wave = "Triangle" /\ 0 <= osc.phase /\ osc.phase < PhaseUnit) =>
        /\ Abs(sample(osc) - RoundDiv(osc.amplitude * TriangleShape(osc.phase), ONE))
              <= SampleTol
        /\ osc.phase = 0 => sample(osc) = 0
        /\ 4 * osc.phase = PhaseUnit => sample(osc) = osc.amplitude
        /\ 2 * osc.phase = PhaseUnit => sample(osc) = 0
        /\ 4 * osc.phase = 3 * PhaseUnit => sample(osc) = -osc.amplitude
        /\ (0 < osc.phase /\ 4 * osc.phase < PhaseUnit /\ osc.amplitude > 0) =>
              (0 < sample(osc) /\ sample(osc) < osc.amplitude)

\* a Triangle oscillator was ticked to three quarters of a cycle, where it
\* samples -amplitude
C11_Witness ==
    /\ last.op = "tick" /\ last.dt > 0
    /\ osc.wave = "Triangle" /\ 4 * osc.phase = 3 * PhaseUnit
    /\ sample(osc) = -osc.amplitude /\ osc.amplitude > 0

----------------------------------------------------------------------------
(* Flex policies: properties *)

\* The segment indices the flex policies are tried with (example_creatures_plan
\* builds chains of 16 segments)
MaxSegmentIndex == 16

\* flex_for_segment tabulated over the types and the indices 0 ..
\* MaxSegmentIndex + 1
FlexTable ==
    [type_id \in SegmentTypes |->
        [i \in 0 .. MaxSegmentIndex + 1 |-> flex_for_segment(type_id, i)]]

\* The contract of the two policies over the indices 0 .. MaxSegmentIndex:
\* flex(0) = 1, flex >= 1, flex non-decreasing; Rectangle is the policy of
\* base RECT_BASE and pow RECT_POW, Disk is 1 + (DISK_BASE - 1) * i, and
\* Rectangle lies above Disk from index 1 on
FlexContract ==
    /\ \A type_id \in SegmentTypes :
          /\ FlexTable[type_id][0] = ONE
          /\ \A i \in 0 .. MaxSegmentIndex :
                /\ FlexTable[type_id][i] >= ONE
                /\ FlexTable[type_id][i] <= FlexTable[type_id][i + 1]
    /\ \A i \in 0 .. MaxSegmentIndex :
          /\ FlexTable["Rectangle"][i] = FlexPolicy(RECT_BASE, RECT_POW, i)
          /\ FlexTable["Disk"][i] = ONE + (DISK_BASE - ONE) * i
          /\ i >= 1 => /\ FlexTable["Disk"][i] < FlexTable["Rectangle"][i]
                       /\ FlexTable["Rectangle"][i] >= ONE + (RECT_BASE - ONE) * i
    /\ FlexTable["Rectangle"][1] = RECT_BASE

\* C12: for both segment types flex_for_segment(0) = 1.0, flex_for_segment(i)
\* >= 1.0 and flex_for_segment(i) <= flex_for_segment(i + 1) for every index i,
\* and LimbSegmentTypeId::flex_for_segment gives each type id its own policy
\* (Rectangle: base 1.1, pow 1.1; Disk: base 1.05, pow 1.0).
C12_FlexMonotone ==
    /\ FlexContract
    /\ \A l \in LimbIds : \A k \in DOMAIN segs[l] :
          /\ segs[l][k].segment_index = k - 1
          /\ FlexTable[segs[l][k].type_id][segs[l][k].segment_index] >= ONE
          /\ k > 1 => FlexTable[segs[l][k - 1].type_id][k - 2]
                         <= FlexTable[segs[l][k].type_id][k - 1]

\* a chain of three Rectangle segments was animated with a positive angle, and
\* the rotations written grow strictly along the chain, starting at the angle
C12_Witness ==
    /\ ev.op = "animate"
    /\ \E l \in LimbIds :
          /\ Len(segs[l]) = 3
          /\ \A k \in 1 .. 3 : segs[l][k].type_id = "Rectangle"
          /\ sample(limbs[l]) > 0
          /\ segs[l][1].rotation = sample(limbs[l])
          /\ segs[l][1].rotation < segs[l][2].rotation
          /\ segs[l][2].rotation < segs[l][3].rotation

----------------------------------------------------------------------------
(* End-to-end scenario 3: a chain of three Rectangle segments, angle 0.2 rad *)

\* the sampled angle of the scenario, 0.2 rad
Scenario3Angle == RAD \div 5
\* 1e-3 rad
Scenario3Tol == RAD \div 1000

\* animate_limb_segments has just run over limb l, whose chain is three
\* Rectangle segments and whose oscillator sampled 0.2 rad
Scenario3(l) ==
    /\ ev.op = "animate"
    /\ Len(segs[l]) = 3
    /\ \A k \in 1 .. 3 : segs[l][k].type_id = "Rectangle"
    /\ sample(ev.pre[l]) = Scenario3Angle

\* the rotations of limb l's chain are those of expected, each within 1e-3 rad
RotationsNear(l, expected) ==
    \A k \in 1 .. 3 : Abs(segs[l][k].rotation - expected[k]) <= Scenario3Tol

\* C13 as stated: for a limb with 3 Rectangle segments (base 1.1, pow 1.1) and
\* a sampled angle of 0.2 rad, the rotations written are [0.2, 0.222, 0.2475]
\* rad, each within 1e-3.
C13_Scenario3AsStated ==
    \A l \in LimbIds :
        Scenario3(l) =>
            RotationsNear(l, <<RAD \div 5, (222 * RAD) \div 1000,
                               (2475 * RAD) \div 10000>>)

\* C13, amended: for a limb with 3 Rectangle segments (base 1.1, pow 1.1) and
\* a sampled angle of 0.2 rad, the rotations written are 0.2 * (1 + 0.1 *
\* i^1.1) for i = 0, 1, 2, that is [0.2, 0.22, 0.2429] rad, each within 1e-3.
C13_Scenario3 ==
    \A l \in LimbIds :
        Scenario3(l) =>
            RotationsNear(l, <<RAD \div 5, (220 * RAD) \div 1000,
                               (2429 * RAD) \div 10000>>)

\* the scenario has happened: the second rotation is 0.22 rad, one tenth
\* above the angle
C13_Witness ==
    \E l \in LimbIds :
        /\ Scenario3(l)
        /\ segs[l][1].rotation = Scenario3Angle
        /\ 10 * segs[l][2].rotation = 11 * Scenario3Angle

----------------------------------------------------------------------------
(* animate_limb_segments: the effect of one pass *)

\* C14: after one pass of animate_limb_segments every segment s of every limb
\* L has rotation angle_L * flex(s.type_id, s.segment_index), angle_L being
\* the one sample() of L's oscillator in that pass; the pass changes no
\* oscillator, writes a limb's segments from no other limb's angle, keeps the
\* chains as they are, and does nothing for a limb with zero segments.
C14_AnimatePass ==
    ev.op = "animate" =>
        /\ limbs = ev.pre
        /\ DOMAIN segs = DOMAIN ev.pre_segs
        /\ \A l \in LimbIds :
              LET angle == sample(ev.pre[l])
              IN  /\ Len(segs[l]) = Len(ev.pre_segs[l])
                  /\ Len(ev.pre_segs[l]) = 0 => segs[l] = ev.pre_segs[l]
                  /\ \A k \in DOMAIN segs[l] :
                        /\ segs[l][k].type_id = ev.pre_segs[l][k].type_id
                        /\ segs[l][k].segment_index = ev.pre_segs[l][k].segment_index
                        /\ segs[l][k].rotation =
                              RoundDiv(angle * flex_for_segment(segs[l][k].type_id,
                                                              segs[l][k].segment_index),
                                       ONE)
                        /\ segs[l][k].segment_index = 0 => segs[l][k].rotation = angle

\* a pass ran over a limb with no segments and a limb with segments whose
\* oscillators sampled different non-zero angles, and rewrote a rotation
C14_Witness ==
    /\ ev.op = "animate"
    /\ \E l, m \in LimbIds :
          /\ Len(segs[l]) = 0 /\ Len(segs[m]) > 1
          /\ sample(limbs[l]) # 0 /\ sample(limbs[m]) # 0
          /\ sample(limbs[l]) # sample(limbs[m])
          /\ segs[m][2].rotation # ev.pre_segs[m][2].rotation
          /\ ev.pre_segs[m][2].rotation # 0

----------------------------------------------------------------------------
(* Frequency::update: no overshoot *)

====
